---- MODULE Spec2Model ----
(***************************************************************************)
(* Customer Sales Analysis (src/main.py): a single-pass batch pipeline     *)
(*   load_data -> preprocess_data -> customer_analysis -> sales_analysis   *)
(*   -> pivot_analysis -> create_visualizations -> print_summary -> to_csv *)
(* Tables are sequences of records; customer names, product names and      *)
(* regions are modelled by their rank in alphabetical order (a natural     *)
(* number), so that the key order pandas sorts by is the order of Nat.     *)
(* A date text "YYYY-MM-DD" is the triple <<YYYY, MM, DD>>.                 *)
(* Numbers are integers; every column value is present (no missing cell). *)
(***************************************************************************)
EXTENDS Integers, Sequences, FiniteSets

VARIABLES pc, salesFile, customersFile, sales, customers, df,
          customer_revenue, clv, monthly_sales, top_products, region_sales,
          pivot_table, charts, printed, report, pivotFile, err

vars == <<pc, salesFile, customersFile, sales, customers, df,
          customer_revenue, clv, monthly_sales, top_products, region_sales,
          pivot_table, charts, printed, report, pivotFile, err>>

(***************************************************************************)
(* Bounds of the input files                                               *)
(***************************************************************************)
\* rows of a small sales file
MaxSales == 3
\* rows of a small customer file
MaxCustomers == 2
\* rows (= distinct products, regions and customers) of a catalogue file
MaxWide == 12

\* head(10) of top_products and of the top-customer chart
TopN == 10

Missing == <<[missing |-> TRUE]>>

Min(a, b) == IF a <= b THEN a ELSE b

SRow(o, c, p, q, pr, d, r) ==
    [order_id |-> o, customer_id |-> c, product_name |-> p, quantity |-> q,
     price |-> pr, order_date |-> d, region |-> r]

CRow(c, n) == [customer_id |-> c, customer_name |-> n]

\* Sample rows of sales_data.csv: one order with two line items (one of them
\* a return with a negative quantity), orders in three different months of
\* two years, a customer that no customer file knows, and a malformed date.
SampleSales ==
    { SRow(1, 1, 1,  2,  5, <<2023, 12, 30>>, 1),
      SRow(1, 1, 2, -1,  5, <<2023, 12, 31>>, 2),
      SRow(2, 1, 1,  3,  5, <<2024,  1,  5>>, 2),
      SRow(3, 2, 2,  2,  5, <<2023,  2, 10>>, 1),
      SRow(4, 3, 3,  1, 20, <<2024,  2, 29>>, 3),
      SRow(5, 2, 1,  1,  5, <<2024, 13,  1>>, 1) }

\* Sample rows of customer_data.csv: customer 2 under two names, one of them
\* the name of customer 1.
SampleCustomers == { CRow(1, 1), CRow(2, 1), CRow(2, 2) }

\* A catalogue file: row i sells product i in region i to customer i.
WideSales(n, a) ==
    [i \in 1..n |->
        SRow(i, i, i, ((a * i) % 4) + 1, 5, <<2024, ((i - 1) % 12) + 1, 1>>, i)]

WideCustomers(n) == [i \in 1..n |-> CRow(i, i)]

WideSizes == { n \in (MaxWide - 2)..MaxWide : n >= 0 }

SalesFiles ==
    UNION { [1..n -> SampleSales] : n \in 0..MaxSales }
    \cup { WideSales(n, a) : n \in WideSizes, a \in 0..3 }
    \cup { Missing }

CustomerFiles ==
    UNION { [1..n -> SampleCustomers] : n \in 0..MaxCustomers }
    \cup { WideCustomers(n) : n \in WideSizes }
    \cup { Missing }

(***************************************************************************)
(* preprocess_data                                                         *)
(***************************************************************************)
IsLeap(y) == (y % 4 = 0 /\ y % 100 # 0) \/ y % 400 = 0

DaysIn(y, m) ==
    IF m = 2 THEN (IF IsLeap(y) THEN 29 ELSE 28)
    ELSE IF m \in {4, 6, 9, 11} THEN 30 ELSE 31

\* pd.to_datetime accepts the text iff it names a calendar day
Parseable(d) == d[2] \in 1..12 /\ d[3] \in 1..DaysIn(d[1], d[2])

\* .dt.to_period("M"): the ordinal of the calendar month (months since 1970-01)
to_period_M(d) == (d[1] - 1970) * 12 + (d[2] - 1)

WithDerived(s) ==
    [order_id |-> s.order_id, customer_id |-> s.customer_id,
     product_name |-> s.product_name, quantity |-> s.quantity,
     price |-> s.price, order_date |-> s.order_date, region |-> s.region,
     revenue |-> s.quantity * s.price, month |-> to_period_M(s.order_date)]

Joined(s, c) ==
    [order_id |-> s.order_id, customer_id |-> s.customer_id,
     product_name |-> s.product_name, quantity |-> s.quantity,
     price |-> s.price, order_date |-> s.order_date, region |-> s.region,
     revenue |-> s.revenue, month |-> s.month,
     customer_name |-> c.customer_name]

RECURSIVE FirstMatchOf(_, _, _)
\* variant: a lookup of the customer by id, which finds one row at most
FirstMatchOf(s, cs, j) ==
    IF j > Len(cs) THEN <<>>
    ELSE IF cs[j].customer_id = s.customer_id THEN <<Joined(s, cs[j])>>
    ELSE FirstMatchOf(s, cs, j + 1)

RECURSIVE MatchesOf(_, _, _)
\* the rows one sales row contributes: one per customer row with its id
MatchesOf(s, cs, j) ==
    IF j > Len(cs) THEN <<>>
    ELSE (IF cs[j].customer_id = s.customer_id THEN <<Joined(s, cs[j])>> ELSE <<>>)
         \o MatchesOf(s, cs, j + 1)

RECURSIVE merge_left(_, _, _)
\* variant: how="left", which keeps a sales row without a customer and leaves
\* its customer_name missing (written 0)
merge_left(ss, cs, i) ==
    IF i > Len(ss) THEN <<>>
    ELSE (IF MatchesOf(ss[i], cs, 1) = <<>>
          THEN <<Joined(ss[i], [customer_name |-> 0])>>
          ELSE MatchesOf(ss[i], cs, 1))
         \o merge_left(ss, cs, i + 1)

RECURSIVE merge(_, _, _)
\* pd.merge(sales, customers, on="customer_id", how="inner")
merge(ss, cs, i) ==
    IF i > Len(ss) THEN <<>>
    ELSE MatchesOf(ss[i], cs, 1) \o merge(ss, cs, i + 1)

(***************************************************************************)
(* group-by / aggregate / sort: the pandas operations the views are built  *)
(* from.  A Series is a sequence of [key, value] entries; a key is a tuple *)
(* of the grouping columns' values.                                        *)
(***************************************************************************)
\* lexicographic order of two keys of the same length
KeyLess(a, b) ==
    \E k \in 1..Len(a) : a[k] < b[k] /\ \A h \in 1..(k - 1) : a[h] = b[h]

Column(rows, c) == [i \in 1..Len(rows) |-> <<rows[i][c]>>]

Revenue(rows) == [i \in 1..Len(rows) |-> rows[i].revenue]

RECURSIVE Accumulate(_, _, _, _)
\* one pass over the rows: add each row's value to the entry of its key
Accumulate(keys, vals, i, acc) ==
    IF i > Len(keys) THEN acc
    ELSE IF \E j \in 1..Len(acc) : acc[j].key = keys[i]
         THEN Accumulate(keys, vals, i + 1,
                [j \in 1..Len(acc) |->
                    IF acc[j].key = keys[i]
                    THEN [key |-> acc[j].key, value |-> acc[j].value + vals[i]]
                    ELSE acc[j]])
         ELSE Accumulate(keys, vals, i + 1,
                Append(acc, [key |-> keys[i], value |-> vals[i]]))

InsertByKey(s, x) ==
    LET n == Cardinality({j \in 1..Len(s) : KeyLess(s[j].key, x.key)})
    IN  SubSeq(s, 1, n) \o <<x>> \o SubSeq(s, n + 1, Len(s))

RECURSIVE sort_index(_, _, _)
\* groupby(..., sort=True): the groups come out in ascending key order
sort_index(s, i, out) ==
    IF i > Len(s) THEN out ELSE sort_index(s, i + 1, InsertByKey(out, s[i]))

\* df.groupby(key)[value].sum()
groupby_sum(keys, vals) == sort_index(Accumulate(keys, vals, 1, <<>>), 1, <<>>)

\* the place of x in a sequence that is non-increasing by value: behind every
\* entry that is not smaller, so that equal values keep their order
InsertDesc(s, x) ==
    LET n == Cardinality({j \in 1..Len(s) : s[j].value >= x.value})
    IN  SubSeq(s, 1, n) \o <<x>> \o SubSeq(s, n + 1, Len(s))

RECURSIVE InsertionSortDesc(_, _, _)
InsertionSortDesc(s, i, out) ==
    IF i > Len(s) THEN out ELSE InsertionSortDesc(s, i + 1, InsertDesc(out, s[i]))

\* variant: sort_values() without ascending=False
sort_values_asc(s) ==
    LET t == InsertionSortDesc(s, 1, <<>>)
    IN  [i \in 1..Len(t) |-> t[Len(t) + 1 - i]]

\* Series.sort_values(ascending=False); below 17 entries the default sort
\* kind is an insertion sort
sort_values_desc(s) == InsertionSortDesc(s, 1, <<>>)

\* Series.head(n)
head(s, n) == SubSeq(s, 1, Min(n, Len(s)))

RECURSIVE Distinct(_, _, _)
\* the distinct values of a sequence, in order of first appearance
Distinct(s, i, out) ==
    IF i > Len(s) THEN out
    ELSE IF \E j \in 1..Len(out) : out[j] = s[i]
         THEN Distinct(s, i + 1, out)
         ELSE Distinct(s, i + 1, Append(out, s[i]))

\* variant: "count" in place of "nunique"
count(s) == Len(s)

\* SeriesGroupBy.nunique of one group
nunique(s) == Len(Distinct(s, 1, <<>>))

RECURSIVE Gcd(_, _)
Gcd(a, b) == IF b = 0 THEN a ELSE Gcd(b, a % b)

Abs(a) == IF a < 0 THEN 0 - a ELSE a

\* a / b with b > 0, as the fraction <<numerator, denominator>> in lowest terms
Div(a, b) ==
    LET g == Gcd(Abs(a), b) IN <<a \div g, b \div g>>

SelectRows(rows, c, v) == SelectSeq(rows, LAMBDA r : r[c] = v)

(***************************************************************************)
(* customer_analysis                                                       *)
(***************************************************************************)
CustomerRevenue(d) ==
    sort_values_desc(groupby_sum(Column(d, "customer_name"), Revenue(d)))

ClvRow(d, c, spent) ==
    LET g == SelectRows(d, "customer_id", c)
        orders == nunique([i \in 1..Len(g) |-> g[i].order_id])
    IN  [customer_id |-> c, total_spent |-> spent, total_orders |-> orders,
         avg_order_value |-> Div(spent, orders)]

Clv(d) ==
    LET t == groupby_sum(Column(d, "customer_id"), Revenue(d))
    IN  [i \in 1..Len(t) |-> ClvRow(d, t[i].key[1], t[i].value)]

(***************************************************************************)
(* sales_analysis                                                          *)
(***************************************************************************)
\* variant: groupby("month", sort=False), the months in order of appearance
MonthlySalesUnsorted(d) ==
    LET t == Accumulate(Column(d, "month"), Revenue(d), 1, <<>>)
    IN  [i \in 1..Len(t) |-> [month |-> t[i].key[1], revenue |-> t[i].value]]

\* groupby("month")["revenue"].sum().reset_index(): rows {month, revenue}
MonthlySales(d) ==
    LET t == groupby_sum(Column(d, "month"), Revenue(d))
    IN  [i \in 1..Len(t) |-> [month |-> t[i].key[1], revenue |-> t[i].value]]

\* variant: .head(10) before .sort_values(ascending=False)
TopProductsHeadFirst(d) ==
    sort_values_desc(head(groupby_sum(Column(d, "product_name"), Revenue(d)), TopN))

TopProducts(d) ==
    head(sort_values_desc(groupby_sum(Column(d, "product_name"), Revenue(d))), TopN)

\* variant: region_sales cut to its first ten entries like top_products
RegionSalesHead(d) ==
    head(sort_values_desc(groupby_sum(Column(d, "region"), Revenue(d))), TopN)

RegionSales(d) ==
    sort_values_desc(groupby_sum(Column(d, "region"), Revenue(d)))

(***************************************************************************)
(* pivot_analysis                                                          *)
(***************************************************************************)
\* a cell of the pivot table: <<v>> holds the value v, <<>> is empty (NaN)
NaN == <<>>

RECURSIVE Labels(_, _, _, _)
\* the distinct labels at position k of the grouped keys, ascending
Labels(t, k, i, out) ==
    IF i > Len(t) THEN out
    ELSE IF \E j \in 1..Len(out) : out[j] = t[i].key[k]
         THEN Labels(t, k, i + 1, out)
         ELSE LET n == Cardinality({j \in 1..Len(out) : out[j] < t[i].key[k]})
              IN  Labels(t, k, i + 1,
                     SubSeq(out, 1, n) \o <<t[i].key[k]>> \o SubSeq(out, n + 1, Len(out)))

\* variant: fill_value=0, an absent combination shown as zero
CellOfFillZero(t, r, p) ==
    IF \E j \in 1..Len(t) : t[j].key = <<r, p>>
    THEN <<t[CHOOSE j \in 1..Len(t) : t[j].key = <<r, p>>].value>>
    ELSE <<0>>

CellOf(t, r, p) ==
    IF \E j \in 1..Len(t) : t[j].key = <<r, p>>
    THEN <<t[CHOOSE j \in 1..Len(t) : t[j].key = <<r, p>>].value>>
    ELSE NaN

\* pd.pivot_table(df, values="revenue", index="region",
\*                columns="product_name", aggfunc="sum")
PivotTable(d) ==
    LET t == groupby_sum([i \in 1..Len(d) |-> <<d[i].region, d[i].product_name>>],
                         Revenue(d))
        index == Labels(t, 1, 1, <<>>)
        columns == Labels(t, 2, 1, <<>>)
    IN  [index |-> index, columns |-> columns,
         cell |-> [r \in {index[i] : i \in 1..Len(index)},
                   p \in {columns[i] : i \in 1..Len(columns)} |-> CellOf(t, r, p)]]

EmptyPivot == [index |-> <<>>, columns |-> <<>>, cell |-> [r \in {}, p \in {} |-> NaN]]

(***************************************************************************)
(* print_summary                                                           *)
(***************************************************************************)
RECURSIVE Sum(_, _)
\* Series.sum()
Sum(s, i) == IF i > Len(s) THEN 0 ELSE s[i] + Sum(s, i + 1)

\* f"{x:,.0f}": the nearest whole number, a tie going to the even one
\* (the thousands separators do not change the number and are left out)
Format0f(f) ==
    LET q == f[1] \div f[2]
        r == f[1] - q * f[2]
    IN  IF 2 * r < f[2] THEN q
        ELSE IF 2 * r > f[2] THEN q + 1
        ELSE IF q % 2 = 0 THEN q ELSE q + 1

Report(d, cr) ==
    LET perOrder == groupby_sum(Column(d, "order_id"), Revenue(d))
        orderSums == [i \in 1..Len(perOrder) |-> perOrder[i].value]
    IN  [total_revenue |-> Sum(Revenue(d), 1),
         total_customers |-> nunique([i \in 1..Len(d) |-> d[i].customer_id]),
         avg_order_value |-> Format0f(Div(Sum(orderSums, 1), Len(orderSums))),
         top_customer |-> cr[1].key[1],
         top_customer_value |-> cr[1].value]

NoReport ==
    [total_revenue |-> 0, total_customers |-> 0, avg_order_value |-> 0,
     top_customer |-> 0, top_customer_value |-> 0]

\* the six lines of the report
ReportLines == 6

\* the four charts of create_visualizations
NumCharts == 4

(***************************************************************************)
(* The run of main                                                         *)
(***************************************************************************)
Init ==
    /\ pc = "load_data"
    /\ salesFile \in SalesFiles
    /\ customersFile \in CustomerFiles
    /\ sales = <<>>
    /\ customers = <<>>
    /\ df = <<>>
    /\ customer_revenue = <<>>
    /\ clv = <<>>
    /\ monthly_sales = <<>>
    /\ top_products = <<>>
    /\ region_sales = <<>>
    /\ pivot_table = EmptyPivot
    /\ charts = 0
    /\ printed = 0
    /\ report = NoReport
    /\ pivotFile = Missing
    /\ err = "none"

\* pd.read_csv of both files; a file that does not exist ends the run
load_data ==
    /\ pc = "load_data"
    /\ IF salesFile = Missing \/ customersFile = Missing
       THEN /\ pc' = "error"
            /\ err' = "FileNotFoundError"
            /\ UNCHANGED <<sales, customers>>
       ELSE /\ pc' = "preprocess_data"
            /\ sales' = salesFile
            /\ customers' = customersFile
            /\ err' = err
    /\ UNCHANGED <<salesFile, customersFile, df, customer_revenue, clv,
                   monthly_sales, top_products, region_sales, pivot_table,
                   charts, printed, report, pivotFile>>

\* the derived columns are added to the sales table in place, then the join
preprocess_data ==
    /\ pc = "preprocess_data"
    /\ IF \E i \in 1..Len(sales) : ~Parseable(sales[i].order_date)
       THEN /\ pc' = "error"
            /\ err' = "ValueError"
            /\ UNCHANGED <<sales, df>>
       ELSE /\ pc' = "customer_analysis"
            /\ sales' = [i \in 1..Len(sales) |-> WithDerived(sales[i])]
            /\ df' = merge(sales', customers, 1)
            /\ err' = err
    /\ UNCHANGED <<salesFile, customersFile, customers, customer_revenue, clv,
                   monthly_sales, top_products, region_sales, pivot_table,
                   charts, printed, report, pivotFile>>

customer_analysis ==
    /\ pc = "customer_analysis"
    /\ customer_revenue' = CustomerRevenue(df)
    /\ clv' = Clv(df)
    /\ pc' = "sales_analysis"
    /\ UNCHANGED <<salesFile, customersFile, sales, customers, df,
                   monthly_sales, top_products, region_sales, pivot_table,
                   charts, printed, report, pivotFile, err>>

sales_analysis ==
    /\ pc = "sales_analysis"
    /\ monthly_sales' = MonthlySales(df)
    /\ top_products' = TopProducts(df)
    /\ region_sales' = RegionSales(df)
    /\ pc' = "pivot_analysis"
    /\ UNCHANGED <<salesFile, customersFile, sales, customers, df,
                   customer_revenue, clv, pivot_table,
                   charts, printed, report, pivotFile, err>>

pivot_analysis ==
    /\ pc = "pivot_analysis"
    /\ pivot_table' = PivotTable(df)
    /\ pc' = "create_visualizations"
    /\ UNCHANGED <<salesFile, customersFile, sales, customers, df,
                   customer_revenue, clv, monthly_sales, top_products,
                   region_sales, charts, printed, report, pivotFile, err>>

\* Four charts, each drawn and shown in turn.  The line chart of an empty
\* monthly_sales is drawn; whether the bar chart of an empty series is drawn
\* or rejected with an IndexError depends on the plotting library's version.
create_visualizations ==
    /\ pc = "create_visualizations"
    /\ \/ /\ charts' = NumCharts
          /\ pc' = "print_summary"
          /\ err' = err
       \/ /\ Len(head(customer_revenue, TopN)) = 0
          /\ charts' = 1
          /\ pc' = "error"
          /\ err' = "IndexError"
    /\ UNCHANGED <<salesFile, customersFile, sales, customers, df,
                   customer_revenue, clv, monthly_sales, top_products,
                   region_sales, pivot_table, printed, report, pivotFile>>

\* customer_revenue.index[0] of an empty series raises IndexError, before
\* the first line is printed
print_summary ==
    /\ pc = "print_summary"
    /\ IF Len(customer_revenue) = 0
       THEN /\ pc' = "error"
            /\ err' = "IndexError"
            /\ UNCHANGED <<printed, report>>
       ELSE /\ pc' = "to_csv"
            /\ report' = Report(df, customer_revenue)
            /\ printed' = ReportLines
            /\ err' = err
    /\ UNCHANGED <<salesFile, customersFile, sales, customers, df,
                   customer_revenue, clv, monthly_sales, top_products,
                   region_sales, pivot_table, charts, pivotFile>>

\* pivot_table.to_csv("region_product_pivot.csv")
to_csv ==
    /\ pc = "to_csv"
    /\ pivotFile' = <<pivot_table>>
    /\ pc' = "done"
    /\ UNCHANGED <<salesFile, customersFile, sales, customers, df,
                   customer_revenue, clv, monthly_sales, top_products,
                   region_sales, pivot_table, charts, printed, report, err>>

Next ==
    \/ load_data
    \/ preprocess_data
    \/ customer_analysis
    \/ sales_analysis
    \/ pivot_analysis
    \/ create_visualizations
    \/ print_summary
    \/ to_csv

Spec == Init /\ [][Next]_vars

(***************************************************************************)
(* Vocabulary of the properties                                            *)
(***************************************************************************)
Steps == <<"load_data", "preprocess_data", "customer_analysis", "sales_analysis",
           "pivot_analysis", "create_visualizations", "print_summary", "to_csv",
           "done">>

StepNo(name) == CHOOSE k \in 1..Len(Steps) : Steps[k] = name

\* the step a failed run stopped in
FailedIn ==
    IF err = "FileNotFoundError" THEN "load_data"
    ELSE IF err = "ValueError" THEN "preprocess_data"
    ELSE IF charts = NumCharts THEN "print_summary"
    ELSE "create_visualizations"

\* the step `name` has run to its end
Completed(name) ==
    StepNo(IF pc = "error" THEN FailedIn ELSE pc) > StepNo(name)

RECURSIVE SumRevenueOver(_, _)
\* the sum of revenue over the rows of d at the positions I
SumRevenueOver(d, I) ==
    IF I = {} THEN 0
    ELSE LET i == CHOOSE i \in I : TRUE
         IN  d[i].revenue + SumRevenueOver(d, I \ {i})

RECURSIVE SumValues(_, _)
SumValues(s, I) ==
    IF I = {} THEN 0
    ELSE LET i == CHOOSE i \in I : TRUE
         IN  s[i].value + SumValues(s, I \ {i})

Rows(d) == 1..Len(d)

MatchCount(s) == Cardinality({j \in Rows(customers) : customers[j].customer_id = s.customer_id})

NonIncreasing(s) == \A i \in 1..(Len(s) - 1) : s[i].value >= s[i + 1].value

\* the columns of an enriched row that come from the sales table
SalesPart(r) ==
    [order_id |-> r.order_id, customer_id |-> r.customer_id,
     product_name |-> r.product_name, quantity |-> r.quantity,
     price |-> r.price, order_date |-> r.order_date, region |-> r.region,
     revenue |-> r.revenue, month |-> r.month]

(***************************************************************************)
(* C1  Join invariant                                                      *)
(***************************************************************************)
\* C1 as stated: after preprocess_data every enriched row's customer_id
\* occurs in the customer table, and there are at most as many enriched rows
\* as sales rows, whatever the customer table (duplicate ids included).
C1_JoinInvariant ==
    Completed("preprocess_data") =>
        /\ \A i \in Rows(df) :
              \E j \in Rows(customers) : customers[j].customer_id = df[i].customer_id
        /\ Len(df) <= Len(sales)

\* C1 amended: every enriched row's customer_id occurs in the customer table;
\* the enriched rows are at most as many as the sales rows whenever no
\* customer_id of a sales row occurs in more than one customer row.
C1_JoinInvariantUniqueIds ==
    Completed("preprocess_data") =>
        /\ \A i \in Rows(df) :
              \E j \in Rows(customers) : customers[j].customer_id = df[i].customer_id
        /\ (\A i \in Rows(sales) : MatchCount(sales[i]) <= 1) => Len(df) <= Len(sales)

C1_Witness ==
    /\ Completed("preprocess_data")
    /\ \A i \in Rows(sales) : MatchCount(sales[i]) <= 1
    /\ Len(customers) > 1
    /\ 0 < Len(df)
    /\ Len(df) < Len(sales)

(***************************************************************************)
(* C10  Join multiplicity                                                  *)
(***************************************************************************)
\* C10: every sales row yields one enriched row per customer row with its
\* customer_id (none when no customer row matches), the enriched row count is
\* the sum of these numbers, and every enriched row has revenue = quantity * price.
C10_JoinMultiplicity ==
    Completed("preprocess_data") =>
        /\ \A i \in Rows(sales) :
              Cardinality({k \in Rows(df) : SalesPart(df[k]) = sales[i]})
                = Cardinality({h \in Rows(sales) : sales[h] = sales[i]}) * MatchCount(sales[i])
        /\ \A k \in Rows(df) : \E i \in Rows(sales) : SalesPart(df[k]) = sales[i]
        /\ \A k \in Rows(df) : df[k].revenue = df[k].quantity * df[k].price
        /\ \A i \in Rows(sales) : sales[i].revenue = sales[i].quantity * sales[i].price

C10_Witness ==
    /\ Completed("preprocess_data")
    /\ \E i \in Rows(sales) : MatchCount(sales[i]) = 0
    /\ \E i \in Rows(sales) : MatchCount(sales[i]) = 2
    /\ Len(df) > Len(sales)

(***************************************************************************)
(* C2  Revenue conservation                                                *)
(***************************************************************************)
\* C2: the values of customer_revenue and the values of region_sales both add
\* up to the total revenue of the enriched table.
C2_RevenueConservation ==
    Completed("sales_analysis") =>
        /\ SumValues(customer_revenue, Rows(customer_revenue)) = SumRevenueOver(df, Rows(df))
        /\ SumValues(region_sales, Rows(region_sales)) = SumRevenueOver(df, Rows(df))

C2_Witness ==
    /\ Completed("sales_analysis")
    /\ \E i, k \in Rows(df) :
          /\ df[i].customer_id # df[k].customer_id
          /\ df[i].customer_name = df[k].customer_name
          /\ df[i].region # df[k].region
    /\ SumRevenueOver(df, Rows(df)) > 0

(***************************************************************************)
(* C3  Degenerate aggregates                                               *)
(***************************************************************************)
\* C3: on an empty enriched table every view is empty and no analysis step
\* fails, and print_summary fails with an EmptyResultError.
C3_EmptyResultError ==
    (Completed("pivot_analysis") /\ Len(df) = 0) =>
        /\ Len(customer_revenue) = 0 /\ Len(clv) = 0
        /\ Len(monthly_sales) = 0 /\ Len(top_products) = 0 /\ Len(region_sales) = 0
        /\ Len(pivot_table.index) = 0 /\ Len(pivot_table.columns) = 0
        /\ (pc = "error" /\ FailedIn = "print_summary") => err = "EmptyResultError"

(***************************************************************************)
(* C4  No output before a fatal error                                      *)
(***************************************************************************)
\* C4: a run that ends in an error has shown no chart and printed no line.
C4_AbortBeforeOutput ==
    pc = "error" => (charts = 0 /\ printed = 0)

(***************************************************************************)
(* C5  CLV consistency                                                     *)
(***************************************************************************)
CustomerIdsOf(d) == {d[i].customer_id : i \in Rows(d)}

RowsOfCustomer(d, c) == {i \in Rows(d) : d[i].customer_id = c}

\* C5: clv has exactly one row for every customer_id of the enriched table and
\* no other row; the row holds the customer's summed revenue, the number of
\* its distinct order_ids (at least 1) and their quotient.
C5_ClvConsistency ==
    Completed("customer_analysis") =>
        /\ \A c \in CustomerIdsOf(df) :
              /\ Cardinality({k \in Rows(clv) : clv[k].customer_id = c}) = 1
              /\ \A k \in Rows(clv) : clv[k].customer_id = c =>
                    /\ clv[k].total_spent = SumRevenueOver(df, RowsOfCustomer(df, c))
                    /\ clv[k].total_orders
                         = Cardinality({df[i].order_id : i \in RowsOfCustomer(df, c)})
                    /\ clv[k].total_orders >= 1
                    /\ clv[k].avg_order_value[2] > 0
                    /\ clv[k].avg_order_value[1] * clv[k].total_orders
                         = clv[k].total_spent * clv[k].avg_order_value[2]
        /\ \A k \in Rows(clv) : clv[k].customer_id \in CustomerIdsOf(df)

C5_Witness ==
    /\ Completed("customer_analysis")
    /\ \E k \in Rows(clv) :
          /\ clv[k].total_orders > 1
          /\ clv[k].total_orders < Cardinality(RowsOfCustomer(df, clv[k].customer_id))
          /\ clv[k].avg_order_value[2] > 1

(***************************************************************************)
(* C6  Ranking correctness                                                 *)
(***************************************************************************)
\* C6: customer_revenue and region_sales are non-increasing by value, and
\* region_sales has one entry for every region of the enriched table.
C6_RankingCorrectness ==
    Completed("sales_analysis") =>
        /\ NonIncreasing(customer_revenue)
        /\ NonIncreasing(region_sales)
        /\ {region_sales[i].key[1] : i \in Rows(region_sales)} = {df[i].region : i \in Rows(df)}
        /\ Len(region_sales) = Cardinality({df[i].region : i \in Rows(df)})

C6_Witness ==
    /\ Completed("sales_analysis")
    /\ Len(region_sales) > TopN
    /\ \E i, k \in Rows(region_sales) :
          /\ i < k
          /\ region_sales[i].value > region_sales[k].value
          /\ region_sales[i].key[1] > region_sales[k].key[1]
    /\ \E i, k \in Rows(customer_revenue) :
          /\ i < k
          /\ customer_revenue[i].value > customer_revenue[k].value
          /\ customer_revenue[i].key[1] > customer_revenue[k].key[1]

(***************************************************************************)
(* C7  Pivot completeness                                                  *)
(***************************************************************************)
RowsOfCell(d, r, p) == {i \in Rows(d) : d[i].region = r /\ d[i].product_name = p}

SeqRange(s) == {s[i] : i \in 1..Len(s)}

\* C7: the pivot table has exactly the regions and the products of the
\* enriched table; a cell holds the summed revenue of its (region, product)
\* when the enriched table has such a row and is empty otherwise.
C7_PivotCompleteness ==
    Completed("pivot_analysis") =>
        /\ SeqRange(pivot_table.index) = {df[i].region : i \in Rows(df)}
        /\ SeqRange(pivot_table.columns) = {df[i].product_name : i \in Rows(df)}
        /\ Len(pivot_table.index) = Cardinality(SeqRange(pivot_table.index))
        /\ Len(pivot_table.columns) = Cardinality(SeqRange(pivot_table.columns))
        /\ \A r \in SeqRange(pivot_table.index), p \in SeqRange(pivot_table.columns) :
              IF RowsOfCell(df, r, p) # {}
              THEN pivot_table.cell[r, p] = <<SumRevenueOver(df, RowsOfCell(df, r, p))>>
              ELSE pivot_table.cell[r, p] = NaN

C7_Witness ==
    /\ Completed("pivot_analysis")
    /\ \E r \in SeqRange(pivot_table.index), p \in SeqRange(pivot_table.columns) :
          pivot_table.cell[r, p] = NaN
    /\ \E r \in SeqRange(pivot_table.index), p \in SeqRange(pivot_table.columns) :
          /\ Cardinality(RowsOfCell(df, r, p)) > 1
          /\ pivot_table.cell[r, p] # NaN

(***************************************************************************)
(* C8  Top products                                                        *)
(***************************************************************************)
ProductsOf(d) == {d[i].product_name : i \in Rows(d)}

RowsOfProduct(d, p) == {i \in Rows(d) : d[i].product_name = p}

KeptProducts == {top_products[i].key[1] : i \in Rows(top_products)}

\* C8: top_products has min(10, number of products) entries for distinct
\* products, each with the product's summed revenue, non-increasing, and no
\* product left out has a larger sum than a product kept.
C8_TopProducts ==
    Completed("sales_analysis") =>
        /\ Len(top_products) = Min(TopN, Cardinality(ProductsOf(df)))
        /\ Cardinality(KeptProducts) = Len(top_products)
        /\ \A i \in Rows(top_products) :
              /\ top_products[i].key[1] \in ProductsOf(df)
              /\ top_products[i].value
                   = SumRevenueOver(df, RowsOfProduct(df, top_products[i].key[1]))
        /\ NonIncreasing(top_products)
        /\ \A p \in ProductsOf(df) \ KeptProducts : \A i \in Rows(top_products) :
              SumRevenueOver(df, RowsOfProduct(df, p)) <= top_products[i].value

C8_Witness ==
    /\ Completed("sales_analysis")
    /\ Cardinality(ProductsOf(df)) > TopN
    /\ Len(top_products) = TopN
    /\ \E p \in ProductsOf(df) \ KeptProducts :
          /\ SumRevenueOver(df, RowsOfProduct(df, p)) < top_products[1].value
          /\ \E i \in Rows(top_products) : p < top_products[i].key[1]

(***************************************************************************)
(* C9  Monthly sales                                                       *)
(***************************************************************************)
\* the calendar month <<year, month>> of a date and of a month ordinal
YearMonth(d) == <<d[1], d[2]>>

YearMonthOfOrdinal(m) == <<1970 + (m \div 12), (m % 12) + 1>>

MonthsOf(d) == {YearMonth(d[i].order_date) : i \in Rows(d)}

RowsOfMonth(d, ym) == {i \in Rows(d) : YearMonth(d[i].order_date) = ym}

\* C9: monthly_sales has exactly one row for every calendar month of the
\* enriched table, the rows are in strictly ascending calendar order, and a
\* row's revenue is the summed revenue of the month's rows.
C9_MonthlySales ==
    Completed("sales_analysis") =>
        /\ {YearMonthOfOrdinal(monthly_sales[i].month) : i \in Rows(monthly_sales)} = MonthsOf(df)
        /\ Len(monthly_sales) = Cardinality(MonthsOf(df))
        /\ \A i \in 1..(Len(monthly_sales) - 1) :
              KeyLess(YearMonthOfOrdinal(monthly_sales[i].month),
                      YearMonthOfOrdinal(monthly_sales[i + 1].month))
        /\ \A i \in Rows(monthly_sales) :
              monthly_sales[i].revenue
                = SumRevenueOver(df, RowsOfMonth(df, YearMonthOfOrdinal(monthly_sales[i].month)))

C9_Witness ==
    /\ Completed("sales_analysis")
    /\ Len(monthly_sales) > 1
    /\ \E i, k \in Rows(df) :
          /\ i < k
          /\ df[i].order_date[1] > df[k].order_date[1]
          /\ df[i].order_date[2] < df[k].order_date[2]
    /\ \E i, k \in Rows(df) :
          /\ df[i].order_date[3] # df[k].order_date[3]
          /\ YearMonth(df[i].order_date) = YearMonth(df[k].order_date)

====
